---- MODULE Spec2Model ----
(***************************************************************************)
(* Model of reprozip/main.py: the command-line entry point main(), the     *)
(* subcommands trace, testrun, reset and pack, and the store dump          *)
(* print_db, together with the exit-code and argv encodings they decode.   *)
(***************************************************************************)
EXTENDS Integers, Sequences, FiniteSets, TLC

VARIABLES
    \* ---- main() and the subcommands --------------------------------
    pc,             \* position in main() / the dispatched subcommand
    args,           \* the argparse namespace
    argv,           \* local `argv` of trace()/testrun()
    tracer_calls,   \* calls made to the tracer: <<[program, argv]>>
    tracer_result,  \* what the tracer call did: returned a code or raised
    config_calls,   \* number of write_configuration calls
    db_exists,      \* does the temporary database file of testrun exist
    stdout,         \* what the subcommand printed
    stderr,         \* what the parser printed
    exc,            \* exception propagating out of args.func ("none" if none)
    usage_recorded, \* record_usage_report(command=...)
    usage_submitted,\* submit_usage_report(result=...)
    exit_status,    \* status passed to sys.exit (-1 while running)
    pack_target,    \* extension of the target handed to reprozip.pack.pack
    c,              \* local `c` of testrun(): the code _pytracer.execute returned
    \* ---- print_db ---------------------------------------------------
    pd_pc,          \* which table print_db is iterating over
    pd_row,         \* the row the cursor returned last
    pd_line,        \* the line printed last
    pd_count,       \* rows printed of the current table
    pd_exc,         \* exception raised by print_db ("none" if none)
    \* ---- exit-code round trip --------------------------------------
    ec_pc, ec_value, ec_signaled, ec_code, ec_decoded,
    \* ---- argv round trip -------------------------------------------
    av_pc, av_vector, av_trailing, av_serial, av_decoded

vars == <<pc, args, argv, tracer_calls, tracer_result, config_calls,
          db_exists, stdout, stderr, exc, usage_recorded, usage_submitted,
          exit_status, pack_target, c,
          pd_pc, pd_row, pd_line, pd_count, pd_exc,
          ec_pc, ec_value, ec_signaled, ec_code, ec_decoded,
          av_pc, av_vector, av_trailing, av_serial, av_decoded>>

main_vars == <<pc, args, argv, tracer_calls, tracer_result, config_calls,
               db_exists, stdout, stderr, exc, usage_recorded,
               usage_submitted, exit_status, pack_target, c>>
pd_vars == <<pd_pc, pd_row, pd_line, pd_count, pd_exc>>
ec_vars == <<ec_pc, ec_value, ec_signaled, ec_code, ec_decoded>>
av_vars == <<av_pc, av_vector, av_trailing, av_serial, av_decoded>>

(***************************************************************************)
(* Bounds                                                                  *)
(***************************************************************************)
MaxArgLen == 1      \* characters per argument string
MaxCmdLen == 2      \* arguments per command line
MaxStatus == 2      \* exit statuses 0..MaxStatus the tracer reports
MaxSignal == 9      \* signal numbers 0..MaxSignal the tracer reports
MaxVecLen == 3      \* arguments per serialized argument vector
MaxSerialLen == 3   \* characters of an argv column
MaxNameLen == 2     \* characters of a name column
MaxRows == 2        \* rows per table
MaxTime == 1        \* timestamps 0..MaxTime
MaxMode == 3        \* opened_files modes 1..MaxMode

(***************************************************************************)
(* Program constants                                                       *)
(***************************************************************************)
SIGBIT == 256       \* 0x0100
LOWBYTE == 255      \* 0xFF
Null == -1          \* SQL NULL / Python None for nullable integers

NUL == "NUL"
Chars == {"a", "b"}

RECURSIVE StringsUpTo(_, _)
StringsUpTo(chars, n) ==
    IF n = 0 THEN {<<>>}
    ELSE LET shorter == StringsUpTo(chars, n - 1)
         IN  shorter \cup {Append(s, ch) : s \in shorter, ch \in chars}

ArgStrings == StringsUpTo(Chars, MaxArgLen)
CmdLines == StringsUpTo(ArgStrings, MaxCmdLen)

NoArg0 == [given |-> FALSE, val |-> <<>>]
Arg0s == {NoArg0} \cup {[given |-> TRUE, val |-> a] : a \in ArgStrings}

\* bitwise and of two naturals
RECURSIVE BitAnd(_, _)
BitAnd(a, b) ==
    IF a = 0 \/ b = 0 THEN 0
    ELSE (a % 2) * (b % 2) + 2 * BitAnd(a \div 2, b \div 2)

SessionErrors == {"LaunchError", "AttachError", "StoreWriteError"}
ReturnCodes == (0 .. MaxStatus) \cup {SIGBIT + n : n \in 0 .. MaxSignal}

NoResult == [kind |-> "none", code |-> 0, exc |-> "none"]
Returned(code) == [kind |-> "returned", code |-> code, exc |-> "none"]
Raised(e) == [kind |-> "raised", code |-> 0, exc |-> e]


(***************************************************************************)
(* main(): command-line parsing                                            *)
(***************************************************************************)
Commands == {"trace", "testrun", "reset", "pack"}
TargetExts == {"", ".rpz", ".RPZ"}

\* str.lower() on the extension of the target
Lower(ext) == IF ext = ".RPZ" THEN ".rpz" ELSE ext

NoArgs == [selected_command |-> "none", has_cmdline |-> FALSE,
           cmdline |-> <<>>, arg0 |-> NoArg0, append |-> FALSE,
           target_ext |-> ""]

\* the namespaces the four subparsers can produce
ParsedArgs ==
    {[selected_command |-> "trace", has_cmdline |-> TRUE, cmdline |-> cl,
      arg0 |-> a0, append |-> ap, target_ext |-> ""] :
        cl \in CmdLines, a0 \in Arg0s, ap \in BOOLEAN}
    \cup
    {[selected_command |-> "testrun", has_cmdline |-> TRUE, cmdline |-> cl,
      arg0 |-> a0, append |-> FALSE, target_ext |-> ""] :
        cl \in CmdLines, a0 \in Arg0s}
    \cup
    {[selected_command |-> "reset", has_cmdline |-> FALSE, cmdline |-> <<>>,
      arg0 |-> NoArg0, append |-> FALSE, target_ext |-> ""]}
    \cup
    {[selected_command |-> "pack", has_cmdline |-> FALSE, cmdline |-> <<>>,
      arg0 |-> NoArg0, append |-> FALSE, target_ext |-> e] :
        e \in TargetExts}

MainFresh ==
    /\ args = NoArgs
    /\ argv = <<>>
    /\ tracer_calls = <<>>
    /\ tracer_result = NoResult
    /\ config_calls = 0
    /\ db_exists = FALSE
    /\ stdout = <<>>
    /\ stderr = <<>>
    /\ exc = "none"
    /\ usage_recorded = "none"
    /\ usage_submitted = "none"
    /\ exit_status = -1
    /\ pack_target = "none"
    /\ c = Null

MainInit == pc = "start" /\ MainFresh
MainIdle == pc = "idle" /\ MainFresh

\* sys.version_info < (2, 7, 3): error message and sys.exit(1)
main_python_unsupported ==
    /\ pc = "start"
    /\ pc' = "done"
    /\ stderr' = Append(stderr, "unsupported python")
    /\ exit_status' = 1
    /\ UNCHANGED <<args, argv, tracer_calls, tracer_result, config_calls,
                   db_exists, stdout, exc, usage_recorded, usage_submitted,
                   pack_target, c,
                   pd_vars, ec_vars, av_vars>>

\* parser.parse_args() rejects the command line: usage message, exit 2
main_parse_args_error ==
    /\ pc = "start"
    /\ pc' = "done"
    /\ stderr' = Append(stderr, "usage")
    /\ exit_status' = 2
    /\ UNCHANGED <<args, argv, tracer_calls, tracer_result, config_calls,
                   db_exists, stdout, exc, usage_recorded, usage_submitted,
                   pack_target, c,
                   pd_vars, ec_vars, av_vars>>

\* args = parser.parse_args(); setup_logging; setup_usage_report
main_parse_args ==
    /\ pc = "start"
    /\ \E a \in ParsedArgs : args' = a
    /\ pc' = "check_cmdline"
    /\ UNCHANGED <<argv, tracer_calls, tracer_result, config_calls,
                   db_exists, stdout, stderr, exc, usage_recorded,
                   usage_submitted, exit_status, pack_target, c,
                   pd_vars, ec_vars, av_vars>>

\* mutant: the empty command line is let through
main_check_cmdline_skipped ==
    /\ pc = "check_cmdline"
    /\ pc' = "record"
    /\ UNCHANGED <<args, argv, tracer_calls, tracer_result, config_calls,
                   db_exists, stdout, stderr, exc, usage_recorded,
                   usage_submitted, exit_status, pack_target, c,
                   pd_vars, ec_vars, av_vars>>

\* if 'cmdline' in args and not args.cmdline: parser.error(...)  (exit 2)
main_check_cmdline ==
    /\ pc = "check_cmdline"
    /\ IF args.has_cmdline /\ args.cmdline = <<>>
       THEN /\ stderr' = Append(stderr, "missing command-line")
            /\ exit_status' = 2
            /\ pc' = "done"
       ELSE /\ pc' = "record"
            /\ UNCHANGED <<stderr, exit_status,
                   pd_vars, ec_vars, av_vars>>
    /\ UNCHANGED <<args, argv, tracer_calls, tracer_result, config_calls,
                   db_exists, stdout, exc, usage_recorded, usage_submitted,
                   pack_target, c,
                   pd_vars, ec_vars, av_vars>>

\* record_usage_report(command=args.selected_command)
main_record_usage ==
    /\ pc = "record"
    /\ usage_recorded' = args.selected_command
    /\ pc' = "dispatch"
    /\ UNCHANGED <<args, argv, tracer_calls, tracer_result, config_calls,
                   db_exists, stdout, stderr, exc, usage_submitted,
                   exit_status, pack_target, c,
                   pd_vars, ec_vars, av_vars>>

\* try: args.func(args)
main_dispatch ==
    /\ pc = "dispatch"
    /\ pc' = args.selected_command
    /\ UNCHANGED <<args, argv, tracer_calls, tracer_result, config_calls,
                   db_exists, stdout, stderr, exc, usage_recorded,
                   usage_submitted, exit_status, pack_target, c,
                   pd_vars, ec_vars, av_vars>>

\* except Exception as e: submit_usage_report(result=type(e).__name__)
\* else: submit_usage_report(result='success')
main_submit_usage ==
    /\ pc = "func_ended"
    /\ usage_submitted' = IF exc # "none" THEN exc ELSE "success"
    /\ exc' = "none"
    /\ pc' = "exit"
    /\ UNCHANGED <<args, argv, tracer_calls, tracer_result, config_calls,
                   db_exists, stdout, stderr, usage_recorded, exit_status,
                   pack_target, c,
                   pd_vars, ec_vars, av_vars>>

\* sys.exit(0)
main_exit ==
    /\ pc = "exit"
    /\ exit_status' = 0
    /\ pc' = "done"
    /\ UNCHANGED <<args, argv, tracer_calls, tracer_result, config_calls,
                   db_exists, stdout, stderr, exc, usage_recorded,
                   usage_submitted, pack_target, c,
                   pd_vars, ec_vars, av_vars>>


(***************************************************************************)
(* Decoding of the tracer's return code in testrun()                       *)
(***************************************************************************)
\* mutant: the signal number is masked with 0x7F
testrun_decode_low7(code) ==
    IF BitAnd(code, SIGBIT) # 0
    THEN [signaled |-> TRUE, value |-> BitAnd(code, 127)]
    ELSE [signaled |-> FALSE, value |-> code]

\* if c & 0x0100: signal c & 0xFF, else: exit status c
testrun_decode(code) ==
    IF BitAnd(code, SIGBIT) # 0
    THEN [signaled |-> TRUE, value |-> BitAnd(code, LOWBYTE)]
    ELSE [signaled |-> FALSE, value |-> code]

\* the warning testrun() prints for the code c (nothing for c = 0)
testrun_warning(code) ==
    IF code # 0
    THEN <<[kind |-> IF testrun_decode(code).signaled
                     THEN "signal" ELSE "exit",
            n |-> testrun_decode(code).value]>>
    ELSE <<>>

(***************************************************************************)
(* trace subcommand                                                        *)
(***************************************************************************)
\* argv = [args.arg0] + args.cmdline[1:] if args.arg0 is not None
\*        else args.cmdline
\* mutant: arg0 is tested for truth, so that an empty arg0 is ignored
trace_argv_truthy(a) ==
    IF a.arg0.given /\ a.arg0.val # <<>>
    THEN <<a.arg0.val>> \o Tail(a.cmdline) ELSE a.cmdline

trace_argv(a) ==
    IF a.arg0.given THEN <<a.arg0.val>> \o Tail(a.cmdline) ELSE a.cmdline

trace_build_argv ==
    /\ pc = "trace"
    /\ argv' = trace_argv(args)
    /\ pc' = "trace_tracer"
    /\ UNCHANGED <<args, tracer_calls, tracer_result, config_calls,
                   db_exists, stdout, stderr, exc, usage_recorded,
                   usage_submitted, exit_status, pack_target, c,
                   pd_vars, ec_vars, av_vars>>

\* reprozip.tracer.trace.trace(...) returns; its value is not bound
trace_tracer_returns ==
    /\ pc = "trace_tracer"
    /\ tracer_calls' = Append(tracer_calls,
           [program |-> args.cmdline[1], argv |-> argv,
            append |-> args.append])
    /\ \E code \in ReturnCodes : tracer_result' = Returned(code)
    /\ pc' = "trace_write_config"
    /\ UNCHANGED <<args, argv, config_calls, db_exists, stdout, stderr, exc,
                   usage_recorded, usage_submitted, exit_status,
                   pack_target, c,
                   pd_vars, ec_vars, av_vars>>

\* mutant: the exception of the tracer is swallowed and trace() goes on
trace_tracer_raises_swallowed ==
    /\ pc = "trace_tracer"
    /\ tracer_calls' = Append(tracer_calls,
           [program |-> args.cmdline[1], argv |-> argv,
            append |-> args.append])
    /\ \E e \in SessionErrors : tracer_result' = Raised(e)
    /\ pc' = "trace_write_config"
    /\ UNCHANGED <<args, argv, config_calls, db_exists, stdout, stderr, exc,
                   usage_recorded, usage_submitted, exit_status,
                   pack_target, c, pd_vars, ec_vars, av_vars>>

\* reprozip.tracer.trace.trace(...) raises: the exception leaves trace()
trace_tracer_raises ==
    /\ pc = "trace_tracer"
    /\ tracer_calls' = Append(tracer_calls,
           [program |-> args.cmdline[1], argv |-> argv,
            append |-> args.append])
    /\ \E e \in SessionErrors :
          /\ tracer_result' = Raised(e)
          /\ exc' = e
    /\ pc' = "func_ended"
    /\ UNCHANGED <<args, argv, config_calls, db_exists, stdout, stderr,
                   usage_recorded, usage_submitted, exit_status,
                   pack_target, c,
                   pd_vars, ec_vars, av_vars>>

\* reprozip.tracer.trace.write_configuration(..., overwrite=False)
trace_write_configuration ==
    /\ pc = "trace_write_config"
    /\ config_calls' = config_calls + 1
    /\ \/ exc' = exc
       \/ exc' = "ConfigurationError"
    /\ pc' = "func_ended"
    /\ UNCHANGED <<args, argv, tracer_calls, tracer_result, db_exists,
                   stdout, stderr, usage_recorded, usage_submitted,
                   exit_status, pack_target, c,
                   pd_vars, ec_vars, av_vars>>

(***************************************************************************)
(* testrun subcommand                                                      *)
(***************************************************************************)
PrintDbErrors == {"TypeError", "IndexError", "OperationalError"}

testrun_argv(a) ==
    IF a.arg0.given THEN <<a.arg0.val>> \o Tail(a.cmdline) ELSE a.cmdline

\* fd, database = Path.tempfile(...); os.close(fd)
testrun_tempfile ==
    /\ pc = "testrun"
    /\ db_exists' = TRUE
    /\ pc' = "testrun_argv"
    /\ UNCHANGED <<args, argv, tracer_calls, tracer_result, config_calls,
                   stdout, stderr, exc, usage_recorded, usage_submitted,
                   exit_status, pack_target, c,
                   pd_vars, ec_vars, av_vars>>

testrun_build_argv ==
    /\ pc = "testrun_argv"
    /\ argv' = testrun_argv(args)
    /\ pc' = "testrun_execute"
    /\ UNCHANGED <<args, tracer_calls, tracer_result, config_calls,
                   db_exists, stdout, stderr, exc, usage_recorded,
                   usage_submitted, exit_status, pack_target, c,
                   pd_vars, ec_vars, av_vars>>

\* c = _pytracer.execute(args.cmdline[0], argv, database.path, verbosity)
testrun_execute_returns ==
    /\ pc = "testrun_execute"
    /\ tracer_calls' = Append(tracer_calls,
           [program |-> args.cmdline[1], argv |-> argv, append |-> FALSE])
    /\ \E code \in ReturnCodes :
          /\ tracer_result' = Returned(code)
          /\ c' = code
    /\ pc' = "testrun_print_db"
    /\ UNCHANGED <<args, argv, config_calls, db_exists, stdout, stderr, exc,
                   usage_recorded, usage_submitted, exit_status,
                   pack_target,
                   pd_vars, ec_vars, av_vars>>

\* _pytracer.execute raises: control goes to the finally clause
testrun_execute_raises ==
    /\ pc = "testrun_execute"
    /\ tracer_calls' = Append(tracer_calls,
           [program |-> args.cmdline[1], argv |-> argv, append |-> FALSE])
    /\ \E e \in SessionErrors :
          /\ tracer_result' = Raised(e)
          /\ exc' = e
    /\ pc' = "testrun_finally"
    /\ UNCHANGED <<args, argv, config_calls, db_exists, stdout, stderr,
                   usage_recorded, usage_submitted, exit_status,
                   pack_target, c,
                   pd_vars, ec_vars, av_vars>>

\* print(rule); print_db(database) completes
testrun_print_db_returns ==
    /\ pc = "testrun_print_db"
    /\ stdout' = stdout \o <<[kind |-> "rule", n |-> 0],
                             [kind |-> "db", n |-> 0]>>
    /\ pc' = "testrun_warning"
    /\ UNCHANGED <<args, argv, tracer_calls, tracer_result, config_calls,
                   db_exists, stderr, exc, usage_recorded, usage_submitted,
                   exit_status, pack_target, c,
                   pd_vars, ec_vars, av_vars>>

\* mutant: no finally clause, the exception leaves testrun() at once
testrun_print_db_raises_no_finally ==
    /\ pc = "testrun_print_db"
    /\ stdout' = Append(stdout, [kind |-> "rule", n |-> 0])
    /\ \E e \in PrintDbErrors : exc' = e
    /\ pc' = "func_ended"
    /\ UNCHANGED <<args, argv, tracer_calls, tracer_result, config_calls,
                   db_exists, stderr, usage_recorded, usage_submitted,
                   exit_status, pack_target, c, pd_vars, ec_vars, av_vars>>

\* print(rule); print_db(database) raises: control goes to the finally clause
testrun_print_db_raises ==
    /\ pc = "testrun_print_db"
    /\ stdout' = Append(stdout, [kind |-> "rule", n |-> 0])
    /\ \E e \in PrintDbErrors : exc' = e
    /\ pc' = "testrun_finally"
    /\ UNCHANGED <<args, argv, tracer_calls, tracer_result, config_calls,
                   db_exists, stderr, usage_recorded, usage_submitted,
                   exit_status, pack_target, c,
                   pd_vars, ec_vars, av_vars>>

\* if c != 0: print the warning for a signal or a non-zero exit status
testrun_print_warning ==
    /\ pc = "testrun_warning"
    /\ stdout' = stdout \o testrun_warning(c)
    /\ pc' = "testrun_finally"
    /\ UNCHANGED <<args, argv, tracer_calls, tracer_result, config_calls,
                   db_exists, stderr, exc, usage_recorded, usage_submitted,
                   exit_status, pack_target, c,
                   pd_vars, ec_vars, av_vars>>

\* finally: database.remove()
testrun_finally ==
    /\ pc = "testrun_finally"
    /\ db_exists' = FALSE
    /\ pc' = "func_ended"
    /\ UNCHANGED <<args, argv, tracer_calls, tracer_result, config_calls,
                   stdout, stderr, exc, usage_recorded, usage_submitted,
                   exit_status, pack_target, c,
                   pd_vars, ec_vars, av_vars>>

(***************************************************************************)
(* reset and pack subcommands                                              *)
(***************************************************************************)
\* reprozip.tracer.trace.write_configuration(..., overwrite=True)
reset ==
    /\ pc = "reset"
    /\ config_calls' = config_calls + 1
    /\ \/ exc' = exc
       \/ exc' = "ConfigurationError"
    /\ pc' = "func_ended"
    /\ UNCHANGED <<args, argv, tracer_calls, tracer_result, db_exists,
                   stdout, stderr, usage_recorded, usage_submitted,
                   exit_status, pack_target, c,
                   pd_vars, ec_vars, av_vars>>

\* the target gets the .rpz extension unless it has it (in any case);
\* reprozip.pack.pack(target, ...) returns or raises
pack ==
    /\ pc = "pack"
    /\ IF Lower(args.target_ext) # ".rpz"
       THEN /\ pack_target' = ".rpz"
            /\ stderr' = Append(stderr, "Changing output filename")
       ELSE /\ pack_target' = args.target_ext
            /\ UNCHANGED stderr
    /\ \/ exc' = exc
       \/ exc' = "PackError"
    /\ pc' = "func_ended"
    /\ UNCHANGED <<args, argv, tracer_calls, tracer_result, config_calls,
                   db_exists, stdout, usage_recorded, usage_submitted,
                   exit_status, c,
                   pd_vars, ec_vars, av_vars>>


(***************************************************************************)
(* Specification of main()                                                 *)
(***************************************************************************)
PdIdle ==
    /\ pd_pc = "idle"
    /\ pd_row = [table |-> "none"]
    /\ pd_line = [table |-> "none"]
    /\ pd_count = 0
    /\ pd_exc = "none"

EcIdle ==
    /\ ec_pc = "idle"
    /\ ec_value = 0
    /\ ec_signaled = FALSE
    /\ ec_code = 0
    /\ ec_decoded = [signaled |-> FALSE, value |-> 0]

AvIdle ==
    /\ av_pc = "idle"
    /\ av_vector = <<>>
    /\ av_trailing = FALSE
    /\ av_serial = <<>>
    /\ av_decoded = <<>>

Init == MainInit /\ PdIdle /\ EcIdle /\ AvIdle

Next ==
    \/ main_python_unsupported
    \/ main_parse_args_error
    \/ main_parse_args
    \/ main_check_cmdline
    \/ main_record_usage
    \/ main_dispatch
    \/ trace_build_argv
    \/ trace_tracer_returns
    \/ trace_tracer_raises
    \/ trace_write_configuration
    \/ testrun_tempfile
    \/ testrun_build_argv
    \/ testrun_execute_returns
    \/ testrun_execute_raises
    \/ testrun_print_db_returns
    \/ testrun_print_db_raises
    \/ testrun_print_warning
    \/ testrun_finally
    \/ reset
    \/ pack
    \/ main_submit_usage
    \/ main_exit



Spec == Init /\ [][Next]_vars


(***************************************************************************)
(* Claims about main() and the subcommands (checked under Spec)            *)
(***************************************************************************)
Printed(entry) == \E i \in DOMAIN stdout : stdout[i] = entry
Complained(msg) == \E i \in DOMAIN stderr : stderr[i] = msg
FuncEnded == pc \in {"func_ended", "exit", "done"}

\* C3: whenever the traced root process of a trace or testrun run ended
\* with a non-zero final exit code, the finished command has reported that
\* code to the user, as a warning in its output or as its own exit status.
C3_ExitCodeReported ==
    ( /\ pc = "done"
      /\ args.selected_command \in {"trace", "testrun"}
      /\ tracer_result.kind = "returned"
      /\ tracer_result.code # 0 )
    => \/ \E w \in {"signal", "exit"} :
             Printed([kind |-> w,
                      n |-> testrun_decode(tracer_result.code).value])
       \/ exit_status # 0

\* C4: when the dispatched subcommand failed with a session-level error,
\* main ends with an exit status that differs from the one of a successful
\* run (0), or with the error still propagating.
C4_SessionErrorSurfaced ==
    ( /\ pc = "done"
      /\ tracer_result.kind = "raised"
      /\ tracer_result.exc \in SessionErrors )
    => \/ exit_status # 0
       \/ exc # "none"

\* C5: in a run of the trace subcommand, write_configuration has been called
\* only if the tracer call returned, and never if the tracer call raised.
C5_ConfigOnlyAfterTrace ==
    args.selected_command = "trace" =>
        /\ config_calls > 0 => tracer_result.kind = "returned"
        /\ tracer_result.kind = "raised" => config_calls = 0

C5_Witness ==
    /\ args.selected_command = "trace"
    /\ tracer_result.kind = "raised"
    /\ pc = "done"
    /\ config_calls = 0

\* C8: once testrun has ended, the temporary database file it created no
\* longer exists, whether the tracer returned, the tracer raised or print_db
\* raised.
C8_TempStoreRemoved ==
    (args.selected_command = "testrun" /\ FuncEnded) => ~db_exists

C8_Witness ==
    /\ args.selected_command = "testrun"
    /\ pc = "func_ended"
    /\ tracer_result.kind = "returned"
    /\ exc \in PrintDbErrors
    /\ ~db_exists

\* C9: every call of the tracer, from trace or from testrun, gets
\* cmdline[0] as the program and an argv as long as cmdline with the same
\* tail, whose first element is arg0 when -a was given (an empty string
\* included) and cmdline[0] otherwise; and no step changes the parsed
\* namespace, so that cmdline is left as it was.
C9_CallShape ==
    \A i \in DOMAIN tracer_calls :
        LET call == tracer_calls[i]
            cl == args.cmdline
        IN  /\ cl # <<>>
            /\ call.program = cl[1]
            /\ Len(call.argv) = Len(cl)
            /\ Tail(call.argv) = Tail(cl)
            /\ call.argv[1] = IF args.arg0.given THEN args.arg0.val
                              ELSE cl[1]

C9_TracerArguments ==
    /\ []C9_CallShape
    /\ [][pc # "start" => args' = args]_vars

C9_Witness ==
    /\ tracer_calls # <<>>
    /\ args.arg0.given
    /\ args.arg0.val = <<>>
    /\ Len(args.cmdline) = MaxCmdLen
    /\ args.cmdline[1] # <<>>
    /\ tracer_calls[1].argv[1] = <<>>

\* C10: with an empty cmdline (trace or testrun) main stops with the
\* "missing command-line" parser error, exit status 2, before the usage
\* report is recorded, before the subcommand is dispatched and before any
\* tracer call; for reset and pack the error is never raised.
C10_NoEmptyCommandLine ==
    /\ (args.has_cmdline /\ args.cmdline = <<>>) =>
          /\ pc \in {"check_cmdline", "done"}
          /\ usage_recorded = "none"
          /\ tracer_calls = <<>>
          /\ pc = "done" => (exit_status = 2
                             /\ Complained("missing command-line"))
    /\ args.selected_command \in {"reset", "pack"} =>
          ~Complained("missing command-line")
    /\ \A i \in DOMAIN tracer_calls : tracer_calls[i].argv # <<>>

C10_Witness ==
    /\ args.selected_command \in {"trace", "testrun"}
    /\ args.cmdline = <<>>
    /\ pc = "done"
    /\ exit_status = 2
    /\ Complained("missing command-line")


(***************************************************************************)
(* Exit-code round trip: the tracer encodes, testrun() decodes             *)
(***************************************************************************)
\* bitwise or of two naturals
RECURSIVE BitOr(_, _)
BitOr(a, b) ==
    IF a = 0 THEN b
    ELSE IF b = 0 THEN a
    ELSE (IF a % 2 = 1 \/ b % 2 = 1 THEN 1 ELSE 0)
         + 2 * BitOr(a \div 2, b \div 2)

\* the code stored for a process: its exit status, or 0x0100 | signal
encode_exit(value, signaled) ==
    IF signaled THEN BitOr(SIGBIT, value) ELSE value

ExitCodeInit ==
    /\ ec_pc = "start"
    /\ ec_value \in 0 .. LOWBYTE
    /\ ec_signaled \in BOOLEAN
    /\ ec_code = 0
    /\ ec_decoded = [signaled |-> FALSE, value |-> 0]
    /\ MainIdle /\ PdIdle /\ AvIdle

\* the tracer stores the exit code of the root process and returns it
ec_encode ==
    /\ ec_pc = "start"
    /\ ec_code' = encode_exit(ec_value, ec_signaled)
    /\ ec_pc' = "encoded"
    /\ UNCHANGED <<ec_value, ec_signaled, ec_decoded,
                   main_vars, pd_vars, av_vars>>

\* testrun() decodes the returned code
ec_decode ==
    /\ ec_pc = "encoded"
    /\ ec_decoded' = testrun_decode(ec_code)
    /\ ec_pc' = "decoded"
    /\ UNCHANGED <<ec_value, ec_signaled, ec_code,
                   main_vars, pd_vars, av_vars>>

ExitCodeNext ==
    \/ ec_encode
    \/ ec_decode

SpecExitCode == ExitCodeInit /\ [][ExitCodeNext]_vars

\* C1: a normal exit 0 is stored as 0 and signal 9 as 0x0109; decoding the
\* stored code as testrun does gives back the (value, signaled) pair that
\* was encoded, for every value 0..255 of either kind; and no code of the
\* other kind decodes to the same pair.
C1_ExitCodeRoundTrip ==
    /\ ec_pc # "start" =>
          /\ (ec_value = 0 /\ ~ec_signaled) => ec_code = 0
          /\ (ec_value = 9 /\ ec_signaled) => ec_code = 265
          /\ ~ec_signaled => ec_code = ec_value
    /\ ec_pc = "decoded" =>
          /\ ec_decoded = [signaled |-> ec_signaled, value |-> ec_value]
          /\ \A v \in 0 .. LOWBYTE :
                testrun_decode(encode_exit(v, ~ec_signaled)) # ec_decoded

C1_Witness ==
    /\ ec_pc = "decoded"
    /\ ec_signaled
    /\ ec_value = LOWBYTE
    /\ ec_code = 511
    /\ ec_decoded = [signaled |-> TRUE, value |-> 255]

(***************************************************************************)
(* Argument-vector round trip: NUL-joined argv, split by print_db          *)
(***************************************************************************)
ArgVectors == StringsUpTo(ArgStrings, MaxVecLen)

\* '\0'.join(vector)
RECURSIVE JoinNul(_)
JoinNul(vector) ==
    IF vector = <<>> THEN <<>>
    ELSE IF Len(vector) = 1 THEN vector[1]
    ELSE vector[1] \o <<NUL>> \o JoinNul(Tail(vector))

\* the argv column: the arguments joined with NUL; the optional trailing
\* separator follows the last argument, if there is one
argv_serialize(vector, trailing) ==
    JoinNul(vector)
    \o (IF trailing /\ vector # <<>> THEN <<NUL>> ELSE <<>>)

\* str.split('\0'): the segments between the separators, empty ones included
RECURSIVE SplitNulFrom(_, _, _)
SplitNulFrom(str, segment, done) ==
    IF str = <<>> THEN Append(done, segment)
    ELSE IF Head(str) = NUL
         THEN SplitNulFrom(Tail(str), <<>>, Append(done, segment))
         ELSE SplitNulFrom(Tail(str), Append(segment, Head(str)), done)

SplitNul(str) == SplitNulFrom(str, <<>>, <<>>)

\* mutant: the empty last segment is kept
print_db_argv_keep_last(r_argv) == SplitNul(r_argv)

\* argv = r_argv.split('\0'); if not argv[-1]: argv = argv[:-1]
print_db_argv(r_argv) ==
    LET parts == SplitNul(r_argv)
    IN  IF parts[Len(parts)] = <<>>
        THEN SubSeq(parts, 1, Len(parts) - 1)
        ELSE parts

ArgvInit ==
    /\ av_pc = "start"
    /\ av_vector \in ArgVectors
    /\ av_trailing \in BOOLEAN
    /\ av_serial = <<>>
    /\ av_decoded = <<>>
    /\ MainIdle /\ PdIdle /\ EcIdle

\* the tracer stores the argument vector of an exec
av_serialize ==
    /\ av_pc = "start"
    /\ av_serial' = argv_serialize(av_vector, av_trailing)
    /\ av_pc' = "stored"
    /\ UNCHANGED <<av_vector, av_trailing, av_decoded,
                   main_vars, pd_vars, ec_vars>>

\* print_db reads the argv column back
av_decode ==
    /\ av_pc = "stored"
    /\ av_decoded' = print_db_argv(av_serial)
    /\ av_pc' = "decoded"
    /\ UNCHANGED <<av_vector, av_trailing, av_serial,
                   main_vars, pd_vars, ec_vars>>

ArgvNext ==
    \/ av_serialize
    \/ av_decode

SpecArgv == ArgvInit /\ [][ArgvNext]_vars

LastArg(vector) == vector[Len(vector)]

\* C2 (as claimed): every argument vector, empty strings allowed, joined
\* with or without a trailing NUL, is recovered by print_db's decoding.
C2_RoundTripAny ==
    av_pc = "decoded" => av_decoded = av_vector

\* C2 (amended): a non-empty argument vector whose last argument is not the
\* empty string is recovered, the same with and without the trailing
\* separator; a non-empty vector whose last argument is the empty string is
\* recovered when the trailing separator is present, and loses its last
\* argument when it is not.
C2_RoundTripAmended ==
    (av_pc = "decoded" /\ av_vector # <<>>) =>
        /\ LastArg(av_vector) # <<>> =>
              /\ av_decoded = av_vector
              /\ print_db_argv(argv_serialize(av_vector, ~av_trailing))
                 = av_decoded
        /\ (LastArg(av_vector) = <<>> /\ av_trailing) =>
              av_decoded = av_vector
        /\ (LastArg(av_vector) = <<>> /\ ~av_trailing) =>
              av_decoded = SubSeq(av_vector, 1, Len(av_vector) - 1)

C2_Witness ==
    /\ av_pc = "decoded"
    /\ Len(av_vector) = 2
    /\ av_vector[1] = <<>>
    /\ av_vector[2] # <<>>
    /\ av_trailing
    /\ av_decoded = av_vector


(***************************************************************************)
(* print_db: dump of the three tables, one row per step                    *)
(***************************************************************************)
SLASH == "/"
Names == StringsUpTo({"a", SLASH}, MaxNameLen) \ {<<>>}
Serials == StringsUpTo({"a", NUL}, MaxSerialLen)
Times == 0 .. MaxTime
Pids == 0 .. MaxRows - 1

\* os.path.basename: what follows the last slash
RECURSIVE Basename(_)
Basename(name) ==
    IF name = <<>> THEN <<>>
    ELSE IF \A i \in DOMAIN name : name[i] # SLASH THEN name
    ELSE Basename(Tail(name))

NoRow == [table |-> "none"]
NoLine == [table |-> "none"]
ok(line) == [exc |-> "none", line |-> line]
raise(e) == [exc |-> e, line |-> NoLine]

\* rows of processes(id, parent, timestamp, exitcode) the next insert can be
ProcessRows(n) ==
    {[table |-> "processes", id |-> n, parent |-> p, timestamp |-> t,
      exitcode |-> e] :
        p \in {Null} \cup 0 .. n - 1, t \in Times,
        e \in {Null} \cup ReturnCodes}

\* rows of executed_files(id, name, timestamp, process, argv)
ExecutedRows(n) ==
    {[table |-> "executed_files", id |-> n, name |-> nm, timestamp |-> t,
      process |-> p, argv |-> a] :
        nm \in Names, t \in Times, p \in Pids, a \in Serials}

\* rows of opened_files(id, name, timestamp, mode, process)
OpenedRows(n) ==
    {[table |-> "opened_files", id |-> n, name |-> nm, timestamp |-> t,
      mode |-> m, process |-> p] :
        nm \in Names, t \in Times, m \in 1 .. MaxMode, p \in Pids}

\* the line printed for a processes row: r_exit & 0x0100 raises TypeError
\* on None; the number shown after "sig" is r_exit itself
print_db_process_line(r) ==
    IF r.exitcode = Null THEN raise("TypeError")
    ELSE ok([table |-> "processes", id |-> r.id, parent |-> r.parent,
             sig |-> BitAnd(r.exitcode, SIGBIT) # 0,
             exit |-> r.exitcode,
             timestamp |-> r.timestamp])

\* the line printed for an executed_files row: argv[0] raises IndexError
\* when the decoded argv is empty; the name is shown in front when argv[0]
\* is not its basename
print_db_executed_line(r) ==
    LET av == print_db_argv(r.argv)
    IN  IF av = <<>> THEN raise("IndexError")
        ELSE ok([table |-> "executed_files", id |-> r.id,
                 timestamp |-> r.timestamp, process |-> r.process,
                 name |-> IF av[1] # Basename(r.name) THEN <<r.name>>
                          ELSE <<>>,
                 argv |-> av])

\* the line printed for an opened_files row
print_db_opened_line(r) ==
    ok([table |-> "opened_files", id |-> r.id, timestamp |-> r.timestamp,
        process |-> r.process, mode |-> r.mode, name |-> r.name])

PrintDbInit ==
    /\ pd_pc = "connect"
    /\ pd_row = NoRow
    /\ pd_line = NoLine
    /\ pd_count = 0
    /\ pd_exc = "none"
    /\ MainIdle /\ EcIdle /\ AvIdle

\* the cursor returned row r and the loop body printed its line or raised
PrintRow(r, result) ==
    /\ pd_row' = r
    /\ pd_line' = result.line
    /\ pd_exc' = result.exc
    /\ IF result.exc = "none"
       THEN pd_count' = pd_count + 1 /\ UNCHANGED pd_pc
       ELSE pd_pc' = "raised" /\ UNCHANGED pd_count
    /\ UNCHANGED <<main_vars, ec_vars, av_vars>>

\* the cursor is exhausted: on to the next table
NextTable(next) ==
    /\ pd_pc' = next
    /\ pd_count' = 0
    /\ UNCHANGED <<pd_row, pd_line, pd_exc, main_vars, ec_vars, av_vars>>

\* conn = sqlite3.connect(...); SELECT ... FROM processes; the header
print_db_connect ==
    /\ pd_pc = "connect"
    /\ NextTable("processes")

print_db_process_row ==
    /\ pd_pc = "processes"
    /\ pd_count < MaxRows
    /\ \E r \in ProcessRows(pd_count) :
          PrintRow(r, print_db_process_line(r))

print_db_processes_end ==
    /\ pd_pc = "processes"
    /\ NextTable("executed_files")

print_db_executed_row ==
    /\ pd_pc = "executed_files"
    /\ pd_count < MaxRows
    /\ \E r \in ExecutedRows(pd_count) :
          PrintRow(r, print_db_executed_line(r))

print_db_executed_end ==
    /\ pd_pc = "executed_files"
    /\ NextTable("opened_files")

print_db_opened_row ==
    /\ pd_pc = "opened_files"
    /\ pd_count < MaxRows
    /\ \E r \in OpenedRows(pd_count) :
          PrintRow(r, print_db_opened_line(r))

\* cur.close(); conn.close()
print_db_close ==
    /\ pd_pc = "opened_files"
    /\ NextTable("closed")

PrintDbNext ==
    \/ print_db_connect
    \/ print_db_process_row
    \/ print_db_processes_end
    \/ print_db_executed_row
    \/ print_db_executed_end
    \/ print_db_opened_row
    \/ print_db_close

SpecPrintDb == PrintDbInit /\ [][PrintDbNext]_vars

\* C6: print_db never raises, and the line it printed last is the line of
\* the row it read last, whatever the row: a null parent, a null exitcode,
\* any argv serialization, the empty one included.
C6_PrintDbCompletes ==
    /\ pd_exc = "none"
    /\ pd_pc # "raised"
    /\ pd_row.table # "none" =>
          (pd_line.table = pd_row.table /\ pd_line.id = pd_row.id)

\* C7: the line of a processes row shows "sig" iff testrun's decoding of
\* the exitcode says signaled, and the number it shows is the decoded value:
\* the signal number (exitcode & 0xFF) or the exit status.
C7_SameDecodingAsTestrun ==
    (pd_row.table = "processes" /\ pd_line.table = "processes") =>
        /\ pd_line.sig = testrun_decode(pd_row.exitcode).signaled
        /\ pd_line.exit = testrun_decode(pd_row.exitcode).value

====
